---- MODULE Spec2Model ----
(***************************************************************************)
(* Auto-export scheduling pipeline of src/content/auto-export.ts:          *)
(* the debounce queue `scheduler`, the run queue `scheduled`, the trigger  *)
(* controller (preference and idle observers) and the AutoExport facade.   *)
(*                                                                         *)
(* Both queues are better-queue instances over a MemoryStore with the      *)
(* options written in the source; what the source leaves unset keeps the   *)
(* library default (one task at a time, no retries, merge = newest task).  *)
(* JavaScript is single threaded: every action below is one synchronous    *)
(* run-to-completion turn (a call into the module, a timer, or the         *)
(* continuation of an await).                                              *)
(***************************************************************************)
EXTENDS Integers, Sequences, FiniteSets

\* ---------------------------------------------------------------- bounds
\* Largest $loki identity the store ever hands out.
MaxId == 2
\* Largest number of debounce entries (queued + waiting) alive at once.
MaxWaits == 2
\* Number of collections in the library tree.
MaxColl == 3

\* ------------------------------------------------------------- constants
\* one worker for every identity there can be
concurrentPerIdentity == MaxId

\* better-queue runs `concurrent` workers at once; neither queue sets it.
concurrent == 1

Ids == 1 .. MaxId
Types == {"collection", "library"}
ScopeIds == {1}
Paths == {"a", "b"}
\* the definitions add() is called with: one at the path of the stored
\* definition, two at a new path
NewDefinitions ==
  { [type |-> "collection", id |-> 1, path |-> "a"],
    [type |-> "collection", id |-> 1, path |-> "b"],
    [type |-> "library", id |-> 1, path |-> "b"] }
Modes == {"off", "immediate", "idle"}
Topics == {"idle", "active", "back"}
Statuses == {"scheduled", "running", "done"}

\* What Translators.translate can settle with: it resolves, or it rejects
\* with an Error object.
Collections == 1 .. MaxColl
Libraries == {1, 2}
\* item.getCollections(): up to two collections, in any order
CollectionLists ==
  {<< >>} \cup { << c >> : c \in Collections }
          \cup { << p[1], p[2] >> :
                   p \in { q \in Collections \X Collections : q[1] # q[2] } }
Items == [libraryID : Libraries, collections : CollectionLists]
\* the batches changed() is called with: none, one or two items
Batches ==
  {<< >>} \cup { << i >> : i \in Items } \cup { << i, j >> : i \in Items, j \in Items }

Success == [ok |-> TRUE, kind |-> "none", message |-> ""]
Failures == { [ok |-> FALSE, kind |-> "Error", message |-> "disk full"] }
Settlements == {Success} \cup Failures

VARIABLES
  mode,        \* Prefs.get('autoExport')
  lastSignal,  \* most recent idle-observer signal: "idle", or "active" (active, back, none yet)
  inited,      \* AutoExport.init() has run (this.db is set)
  db,          \* the autoexport collection: $loki -> definition
  nextId,      \* next $loki the collection hands out
  sStopped,    \* scheduler._stopped
  sStore,      \* scheduler's MemoryStore: queued task ids, in order
  waits,       \* debounce handlers suspended in Zotero.Promise.delay, oldest first
  rStore,      \* scheduled's MemoryStore: queued task ids, in order
  runs,        \* run handlers suspended in Translators.translate, oldest first
  who,         \* the identity whose pushes pend and burst follow
  pend,        \* a debounce push of `who` is not yet followed by a run start
  burst,       \* promotions of `who` counted since its burst of pushes began
  removed,     \* ids deleted by AutoExport.remove
  last,        \* the latest step, when it was init(), a wake-up, an export's end,
               \* a handler's not-found fault or a mode applied again
  watch,       \* what this specification records: "last" (with lastSignal and
               \* removed), "burst", "pend", "run", "fail" or "changed"
  parent,      \* Zotero.Collections.get(c).parentID, 0 when c has no parent
  batch,       \* the items a call of changed() is handed
  emitted      \* the events the latest changed() emitted

vars == << mode, lastSignal, inited, db, nextId, sStopped, sStore, waits,
           rStore, runs, who, pend, burst, removed, last, watch,
           parent, batch, emitted >>

\* ------------------------------------------------------------- helpers
Range(s) == { s[i] : i \in DOMAIN s }

Without(s, x) == SelectSeq(s, LAMBDA y : y # x)

DropAt(s, i) == [ j \in 1 .. (Len(s) - 1) |-> IF j < i THEN s[j] ELSE s[j + 1] ]

RECURSIVE Ascending(_)
Ascending(S) ==
  IF S = {} THEN << >>
  ELSE LET m == CHOOSE x \in S : \A y \in S : x <= y
       IN << m >> \o Ascending(S \ {m})

NoNote == [op |-> "step", id |-> 0, info |-> ""]

Note(op, id, info) ==
  IF watch = "last" THEN [op |-> op, id |-> id, info |-> info] ELSE NoNote

\* ------------------------------------------------------- definition store
\* db.find({ type, id: { $in: ids } }), in $loki order
Find(type, ids) ==
  Ascending({ k \in DOMAIN db : db[k].type = type /\ db[k].id \in ids })

\* only the definitions left scheduled are found, not those left running
FindScheduled == Ascending({ k \in DOMAIN db : db[k].status = "scheduled" })

\* db.find({ status: { $ne: 'done' } }), in $loki order
FindNotDone == Ascending({ k \in DOMAIN db : db[k].status # "done" })

\* db.remove / db.removeWhere over a set of $loki
Delete(d, ks) == [ k \in (DOMAIN d) \ ks |-> d[k] ]

\* nothing is removed before the insert
RemoveWhereNothing(d, path) == d

\* db.removeWhere({ path })
RemoveWhere(d, path) == Delete(d, { k \in DOMAIN d : d[k].path = path })

\* ---------------------------------------------------------- queueHandler
\* A started handler: `task` is the object the queue handed to the wrapper
\* (the one cancel() writes), `active` is the worker's flag.
NewTask(k) == [id |-> k, cancelled |-> FALSE]

\* the object returned by the wrapper: cancel() { task.cancelled = true }
Cancel(h) == [h EXCEPT !.task.cancelled = TRUE]

\* Worker.cancel(): the process object's cancel(), then the batch fails and
\* the worker ends (its later callback is ignored).
WorkerCancel(h) == [Cancel(h) EXCEPT !.active = FALSE]

CancelActive(hs, k) ==
  [ i \in DOMAIN hs |->
      IF hs[i].task.id = k /\ hs[i].active THEN WorkerCancel(hs[i]) ELSE hs[i] ]

Running(hs) == Cardinality({ i \in DOMAIN hs : hs[i].active })

\* comparison off by one: a second worker starts beside the first
SaturatedLate(hs) == Running(hs) > concurrent

Saturated(hs) == Running(hs) >= concurrent

\* MemoryStore.putTask: a task id already queued keeps its place (the merge
\* keeps the newest task object), a new one goes to the end.
Enqueue(store, k) == IF k \in Range(store) THEN store ELSE Append(store, k)

\* a push into a paused queue is thrown away
SchedulerPushDrops(q, k) ==
  IF sStopped THEN q
  ELSE [store |-> Enqueue(q.store, k), hs |-> CancelActive(q.hs, k)]

\* Queue.push on `scheduler` (cancelIfRunning: true)
SchedulerPush(q, k) ==
  [store |-> Enqueue(q.store, k), hs |-> CancelActive(q.hs, k)]

\* a push for an identity whose export is executing is rejected
ScheduledPushRejects(q, k) ==
  IF \E i \in DOMAIN q.hs : q.hs[i].task.id = k /\ q.hs[i].active THEN q
  ELSE [store |-> Enqueue(q.store, k), hs |-> q.hs]

\* Queue.push on `scheduled` (cancelIfRunning unset)
ScheduledPush(q, k) ==
  [store |-> Enqueue(q.store, k), hs |-> q.hs]

\* Queue.cancel(taskId): cancel the worker if any, delete the stored task
QueueCancel(q, k) ==
  [store |-> Without(q.store, k), hs |-> CancelActive(q.hs, k)]

RECURSIVE PushAll(_, _)
PushAll(q, ks) ==
  IF ks = << >> THEN q ELSE PushAll(SchedulerPush(q, Head(ks)), Tail(ks))

RECURSIVE CancelAll(_, _)
CancelAll(q, ks) ==
  IF ks = << >> THEN q ELSE CancelAll(QueueCancel(q, Head(ks)), Tail(ks))

Scheduler == [store |-> sStore, hs |-> waits]
Scheduled == [store |-> rStore, hs |-> runs]

\* ------------------------------------------------------ history bookkeeping
HasEntry(k) == k \in Range(sStore) \/ \E i \in DOMAIN waits : waits[i].task.id = k

\* a push into the debounce queue: it is owed a later run; a push made while
\* the queue is paused is remembered as held
Pushed(ks) ==
  IF who \notin ks THEN pend
  ELSE IF watch = "pend"
       THEN (IF sStopped \/ pend = "held" THEN "held" ELSE "owed")
  ELSE IF watch = "fail" /\ pend = "broke" THEN "owed"
  ELSE pend

\* a failure of an identity other than the one followed: its export failed
\* or a handler found no definition for it
Failed(k) == IF watch = "fail" /\ k # who /\ pend = "no" THEN "broke" ELSE pend

\* a push with no entry alive for the identity opens a new burst
Opened(ks) ==
  IF watch = "burst" /\ who \in ks /\ ~HasEntry(who) THEN 0 ELSE burst

\* a call of run() is owed an export of its own; one call is followed at a time
Ran(k) ==
  IF k # who THEN pend
  ELSE IF watch = "run" /\ pend = "no" THEN "run"
  ELSE IF watch = "fail" /\ pend = "broke" THEN "run"
  ELSE pend

\* the run handler starts for k
Started(k) ==
  IF k # who THEN pend
  ELSE IF watch = "run" THEN (IF pend = "run" THEN "exec" ELSE pend)
  ELSE IF watch = "fail" THEN (IF pend \in {"owed", "run"} THEN "exec" ELSE pend)
  ELSE "no"

\* the export of k ends with res
Ended(k, res) ==
  IF k # who THEN (IF res.ok THEN pend ELSE Failed(k))
  ELSE IF pend # "exec" THEN pend
  ELSE IF watch = "run" THEN "no"
  ELSE IF watch = "fail" THEN "broke"
  ELSE pend

Promoted(k) ==
  IF watch = "burst" /\ k = who /\ burst < 2 THEN burst + 1 ELSE burst

\* the debounce queue holds at most MaxWaits entries after pushing ks
Room(ks) ==
  Len(waits) + Cardinality(Range(sStore) \cup Range(ks)) <= MaxWaits

\* ------------------------------------------------------------ collection tree
\* the collection reached from c by following parentID n times, 0 past the top
RECURSIVE Climb(_, _, _)
Climb(par, c, n) == IF n = 0 \/ c = 0 THEN c ELSE Climb(par, par[c], n - 1)

Acyclic(par) == \A c \in Collections : Climb(par, c, MaxColl) = 0

\* every tree (forest) over the collections
ParentRelations == { par \in [Collections -> Collections \cup {0}] : Acyclic(par) }

NotCalled == [called |-> FALSE, events |-> << >>]

\* ------------------------------------------------------------------ Init
\* Module load: `scheduled` resumed, `scheduler` paused unless the mode is
\* immediate; the store holds what an earlier process lifetime left.
InitialStores ==
  { [ k \in {1} |->
        [ type |-> "collection", id |-> 1, path |-> "a",
          status |-> st, error |-> "" ] ] : st \in Statuses }

InitFor(w) ==
  /\ watch = w
  /\ mode \in Modes
  /\ lastSignal = "active"
  /\ inited = FALSE
  /\ db \in InitialStores
  /\ nextId = 2
  /\ sStopped = (mode # "immediate")
  /\ sStore = << >>
  /\ waits = << >>
  /\ rStore = << >>
  /\ runs = << >>
  /\ who \in (IF w = "last" THEN {1} ELSE Ids)
  /\ pend = "no"
  /\ burst = 0
  /\ removed = {}
  /\ last = NoNote
  /\ parent = [ c \in Collections |-> 0 ]
  /\ batch = << >>
  /\ emitted = NotCalled

Init == InitFor("last")

\* ------------------------------------------------------ trigger controller
\* only `off` pauses
PausedOnlyOff(m) == m = "off"

\* every case pauses (the break of case 'immediate' is missing)
PausedAlways(m) == TRUE

\* switch: case 'immediate' resumes, default (off, idle) pauses
Paused(m) == IF m = "immediate" THEN FALSE ELSE TRUE

\* Events.on('preference-changed', ...), run when a preference is written
PreferenceChanged(pref, m) ==
  /\ IF pref = "autoExport"
     THEN /\ mode' = m
          /\ sStopped' = Paused(m)
     ELSE UNCHANGED << mode, sStopped >>
  /\ last' = IF pref = "autoExport" /\ m = mode
             THEN Note("reapply", 0, IF sStopped THEN "paused" ELSE "resumed")
             ELSE NoNote
  /\ UNCHANGED << lastSignal, inited, db, nextId, sStore, waits, rStore, runs,
                  pend, burst, removed, who, watch,
                  parent, batch, emitted >>

\* the mode is not consulted
ObserveAnyMode(topic, stopped) ==
  IF topic \in {"back", "active"} THEN TRUE
  ELSE IF topic = "idle" THEN FALSE
  ELSE stopped

\* idleObserver.observe: the new scheduler._stopped
Observe(topic, stopped) ==
  IF mode # "idle" THEN stopped
  ELSE IF topic \in {"back", "active"} THEN TRUE
  ELSE IF topic = "idle" THEN FALSE
  ELSE stopped

Signalled(topic) ==
  IF watch # "last" THEN lastSignal
  ELSE IF topic = "idle" THEN "idle" ELSE "active"

IdleObserve(topic) ==
  /\ lastSignal' = Signalled(topic)
  /\ sStopped' = Observe(topic, sStopped)
  /\ last' = NoNote
  /\ UNCHANGED << mode, inited, db, nextId, sStore, waits, rStore, runs,
                  pend, burst, removed, who, watch,
                  parent, batch, emitted >>

\* ------------------------------------------------- debounce queue `scheduler`
\* task = {...task}: the handler's own copy of the task it was handed
Spread(task) == [id |-> task.id, cancelled |-> task.cancelled]

\* the handler up to its await: the wrapper holds `task`, the handler `copy`
DebounceBegin(task) == [task |-> task, copy |-> Spread(task), active |-> TRUE]

\* if (task.cancelled) ... else scheduled.push(task), read after the wait
SeesCancelled(h) == h.copy.cancelled

\* the queue takes its next task although it is paused
SchedulerStartWhilePaused ==
  /\ ~Saturated(waits)
  /\ sStore # << >>
  /\ LET k == Head(sStore) IN
       /\ sStore' = Tail(sStore)
       /\ IF k \in DOMAIN db
          THEN /\ db' = [db EXCEPT ![k].status = "scheduled"]
               /\ waits' = Append(waits, DebounceBegin(NewTask(k)))
               /\ pend' = pend
               /\ last' = NoNote
          ELSE /\ UNCHANGED << db, waits >>
               /\ pend' = Failed(k)
               /\ last' = Note("fault", k, "scheduler")
  /\ UNCHANGED << mode, lastSignal, inited, nextId, sStopped, rStore, runs,
                  burst, removed, who, watch,
                  parent, batch, emitted >>

\* better-queue takes the next stored task when it is not paused and has a
\* free worker; the handler runs to its await.  A missing definition throws,
\* which fails the task and frees the worker at once.
SchedulerStart ==
  /\ ~sStopped
  /\ ~Saturated(waits)
  /\ sStore # << >>
  /\ LET k == Head(sStore) IN
       /\ sStore' = Tail(sStore)
       /\ IF k \in DOMAIN db
          THEN /\ db' = [db EXCEPT ![k].status = "scheduled"]
               /\ waits' = Append(waits, DebounceBegin(NewTask(k)))
               /\ pend' = pend
               /\ last' = NoNote
          ELSE /\ UNCHANGED << db, waits >>
               /\ pend' = Failed(k)
               /\ last' = Note("fault", k, "scheduler")
  /\ UNCHANGED << mode, lastSignal, inited, nextId, sStopped, rStore, runs,
                  burst, removed, who, watch,
                  parent, batch, emitted >>

\* Zotero.Promise.delay(debounce_delay) settles for the oldest waiting
\* handler (equal delays fire in the order they were started); the handler
\* promotes unless it sees its task cancelled, then the worker, if still
\* active, finishes.
DelayElapsed ==
  /\ waits # << >>
  /\ LET h == Head(waits)
         k == h.copy.id
         q == IF SeesCancelled(h) THEN Scheduled ELSE ScheduledPush(Scheduled, k)
     IN
       /\ waits' = Tail(waits)
       /\ rStore' = q.store
       /\ runs' = q.hs
       /\ burst' = IF SeesCancelled(h) THEN burst ELSE Promoted(k)
       /\ last' = Note("wake", k,
                       IF SeesCancelled(h) THEN "dropped"
                       ELSE IF h.task.cancelled THEN "promoted-cancelled"
                       ELSE "promoted")
  /\ UNCHANGED << mode, lastSignal, inited, db, nextId, sStopped, sStore,
                  pend, removed, who, watch,
                  parent, batch, emitted >>

\* ------------------------------------------------------ run queue `scheduled`
RunBegin(task) == [task |-> task, active |-> TRUE]

\* `${err}`
ErrorString(res) ==
  IF res.kind = "Error" THEN "Error: " \o res.message ELSE res.message

\* a success leaves the last error as it was
ExportedKeepsError(ae, res) ==
  [ae EXCEPT !.error = IF res.ok THEN ae.error ELSE ErrorString(res),
             !.status = "done"]

\* try { await translate; ae.error = '' } catch (err) { ae.error = `${err}` }
\* ae.status = 'done'
Exported(ae, res) ==
  [ae EXCEPT !.error = IF res.ok THEN "" ELSE ErrorString(res),
             !.status = "done"]

\* a task whose handler throws stays at the head of the store and is tried
\* again
RunStartRetries ==
  /\ ~Saturated(runs)
  /\ rStore # << >>
  /\ LET k == Head(rStore) IN
       IF k \in DOMAIN db
       THEN /\ rStore' = Tail(rStore)
            /\ db' = [db EXCEPT ![k].status = "running"]
            /\ runs' = Append(runs, RunBegin(NewTask(k)))
            /\ pend' = Started(k)
            /\ last' = NoNote
       ELSE /\ UNCHANGED << rStore, db, runs >>
            /\ pend' = Failed(k)
            /\ last' = Note("fault", k, "scheduled")
  /\ UNCHANGED << mode, lastSignal, inited, nextId, sStopped, sStore, waits,
                  burst, removed, who, watch,
                  parent, batch, emitted >>

\* `scheduled` is never paused: it starts the next stored task when its
\* worker is free; the handler marks the definition running and awaits the
\* export.  A missing definition throws and fails the task.
RunStart ==
  /\ ~Saturated(runs)
  /\ rStore # << >>
  /\ LET k == Head(rStore) IN
       /\ rStore' = Tail(rStore)
       /\ IF k \in DOMAIN db
          THEN /\ db' = [db EXCEPT ![k].status = "running"]
               /\ runs' = Append(runs, RunBegin(NewTask(k)))
               /\ pend' = Started(k)
               /\ last' = NoNote
          ELSE /\ UNCHANGED << db, runs >>
               /\ pend' = Failed(k)
               /\ last' = Note("fault", k, "scheduled")
  /\ UNCHANGED << mode, lastSignal, inited, nextId, sStopped, sStore, waits,
                  burst, removed, who, watch,
                  parent, batch, emitted >>

\* Translators.translate settles for one of the suspended run handlers; the
\* handler records the outcome on its definition and the worker, if still
\* active, finishes.  A definition deleted meanwhile is no longer in the
\* store, so nothing is persisted for it.
RunFinish(i, res) ==
  /\ i \in DOMAIN runs
  /\ LET k == runs[i].task.id IN
       /\ runs' = DropAt(runs, i)
       /\ db' = IF k \in DOMAIN db THEN [db EXCEPT ![k] = Exported(db[k], res)]
                ELSE db
       /\ pend' = Ended(k, res)
       /\ last' = Note("finish", k, IF res.ok THEN "" ELSE ErrorString(res))
  /\ UNCHANGED << mode, lastSignal, inited, nextId, sStopped, sStore, waits,
                  rStore, burst, removed, who, watch,
                  parent, batch, emitted >>

\* ---------------------------------------------------------------- AutoExport
\* init(), called once at startup: push every definition not done, resume
\* when the mode is immediate
AutoExportInit ==
  LET ks == FindNotDone
      q == PushAll(Scheduler, ks)
  IN
    /\ ~inited
    /\ Room(ks)
    /\ inited' = TRUE
    /\ sStore' = q.store
    /\ waits' = q.hs
    /\ sStopped' = IF mode = "immediate" THEN FALSE ELSE sStopped
    /\ pend' = Pushed(Range(ks))
    /\ burst' = Opened(Range(ks))
    /\ last' = Note("init", 0, "")
    /\ UNCHANGED << mode, lastSignal, db, nextId, rStore, runs, removed, who, watch,
                  parent, batch, emitted >>

\* add(ae): removeWhere({ path }), insert
Add(type, id, path) ==
  /\ inited
  /\ nextId <= MaxId
  /\ LET kept == RemoveWhere(db, path)
         ae == [type |-> type, id |-> id, path |-> path,
                status |-> "done", error |-> ""]
     IN db' = [ k \in (DOMAIN kept) \cup {nextId} |->
                  IF k = nextId THEN ae ELSE kept[k] ]
  /\ nextId' = nextId + 1
  /\ last' = NoNote
  /\ UNCHANGED << mode, lastSignal, inited, sStopped, sStore, waits, rStore,
                  runs, pend, burst, removed, who, watch,
                  parent, batch, emitted >>

\* schedule(type, ids), also the libraries-changed / collections-changed handler
Schedule(type, ids) ==
  LET ks == Find(type, ids)
      q == PushAll(Scheduler, ks)
  IN
    /\ inited
    /\ Room(ks)
    /\ sStore' = q.store
    /\ waits' = q.hs
    /\ pend' = Pushed(Range(ks))
    /\ burst' = Opened(Range(ks))
    /\ last' = NoNote
    /\ UNCHANGED << mode, lastSignal, inited, db, nextId, sStopped, rStore,
                    runs, removed, who, watch,
                  parent, batch, emitted >>

\* remove(type, ids), also the libraries-removed / collections-removed handler
Remove(type, ids) ==
  LET ks == Find(type, ids)
      r == CancelAll(Scheduled, ks)
      s == CancelAll(Scheduler, ks)
  IN
    /\ inited
    /\ rStore' = r.store
    /\ runs' = r.hs
    /\ sStore' = s.store
    /\ waits' = s.hs
    /\ db' = Delete(db, Range(ks))
    /\ removed' = IF watch = "last" THEN removed \cup Range(ks) ELSE removed
    /\ last' = NoNote
    /\ UNCHANGED << mode, lastSignal, inited, nextId, sStopped, pend, burst, who, watch,
                  parent, batch, emitted >>

\* the identity goes through the debounce queue like a schedule()
RunDebounced(k) ==
  LET q == SchedulerPush(Scheduler, k) IN
    /\ inited
    /\ k \in DOMAIN db
    /\ Room(<< k >>)
    /\ db' = [db EXCEPT ![k].status = "scheduled"]
    /\ sStore' = q.store
    /\ waits' = q.hs
    /\ pend' = Ran(k)
    /\ last' = NoNote
    /\ UNCHANGED << mode, lastSignal, inited, nextId, sStopped, rStore, runs,
                    burst, removed, who, watch,
                  parent, batch, emitted >>

\* run(ae) for a stored definition or its $loki
Run(k) ==
  LET q == ScheduledPush(Scheduled, k) IN
    /\ inited
    /\ k \in DOMAIN db
    /\ db' = [db EXCEPT ![k].status = "scheduled"]
    /\ rStore' = q.store
    /\ runs' = q.hs
    /\ pend' = Ran(k)
    /\ last' = NoNote
    /\ UNCHANGED << mode, lastSignal, inited, nextId, sStopped, sStore, waits,
                    burst, removed, who, watch,
                  parent, batch, emitted >>

\* Set.add on a Set kept in insertion order
SetAdd(set, x) == IF x \in Range(set) THEN set ELSE Append(set, x)

\* an `if` in place of the `while`: the collection is added, its parents not
WalkNoLoop(seen, c) == IF c = 0 THEN seen ELSE SetAdd(seen, c)

\* while (collectionID) { add; collectionID = parentID }
RECURSIVE Walk(_, _)
Walk(seen, c) == IF c = 0 THEN seen ELSE Walk(SetAdd(seen, c), parent[c])

\* for (let collectionID of item.getCollections()), skipping what is recorded
RECURSIVE ItemCollections(_, _)
ItemCollections(seen, cs) ==
  IF cs = << >> THEN seen
  ELSE ItemCollections(IF Head(cs) \in Range(seen) THEN seen
                       ELSE Walk(seen, Head(cs)),
                       Tail(cs))

\* for (const item of items)
RECURSIVE ChangedSets(_, _)
ChangedSets(changed, items) ==
  IF items = << >> THEN changed
  ELSE ChangedSets(
         [libraries |-> SetAdd(changed.libraries, Head(items).libraryID),
          collections |-> ItemCollections(changed.collections,
                                          Head(items).collections)],
         Tail(items))

\* the two conditional Events.emit calls, with Array.from of each Set
Emitted(changed) ==
  (IF changed.collections # << >>
   THEN << [event |-> "collections-changed", ids |-> changed.collections] >>
   ELSE << >>)
  \o
  (IF changed.libraries # << >>
   THEN << [event |-> "libraries-changed", ids |-> changed.libraries] >>
   ELSE << >>)

\* changed(items); each emitted event runs its listener, schedule(type, ids),
\* before emit returns
Changed(items) ==
  LET changed == ChangedSets([libraries |-> << >>, collections |-> << >>], items)
      cs == IF changed.collections # << >>
            THEN Find("collection", Range(changed.collections)) ELSE << >>
      ls == IF changed.libraries # << >>
            THEN Find("library", Range(changed.libraries)) ELSE << >>
      q == PushAll(PushAll(Scheduler, cs), ls)
  IN
    /\ inited
    /\ Room(cs \o ls)
    /\ sStore' = q.store
    /\ waits' = q.hs
    /\ pend' = Pushed(Range(cs \o ls))
    /\ burst' = Opened(Range(cs \o ls))
    /\ emitted' = [called |-> TRUE, events |-> Emitted(changed)]
    /\ last' = NoNote
    /\ UNCHANGED << mode, lastSignal, inited, db, nextId, sStopped, rStore,
                    runs, removed, who, watch, parent, batch >>

\* ------------------------------------------------------------ specification
RunFinishAny == \E i \in DOMAIN runs : \E res \in Settlements : RunFinish(i, res)

Next ==
  \/ \E pref \in {"autoExport", "autoExportIdleWait"} : \E m \in Modes :
       PreferenceChanged(pref, m)
  \/ \E topic \in Topics : IdleObserve(topic)
  \/ SchedulerStart
  \/ DelayElapsed
  \/ RunStart
  \/ RunFinishAny
  \/ AutoExportInit
  \/ \E d \in NewDefinitions : Add(d.type, d.id, d.path)
  \/ \E type \in Types : \E ids \in SUBSET ScopeIds : Schedule(type, ids)
  \/ \E type \in Types : \E ids \in SUBSET ScopeIds : Remove(type, ids)
  \/ \E k \in Ids : Run(k)

\* The program with the latest step recorded.
Spec == Init /\ [][Next]_vars

\* The program with the promotions of each burst of pushes counted.
BurstSpec == InitFor("burst") /\ [][Next]_vars

\* Timers fire, awaited calls settle and a queue with a free worker takes
\* its next task; the callers of the module are under no obligation.
LiveSpec ==
  /\ InitFor("pend")
  /\ [][Next]_vars
  /\ WF_vars(SchedulerStart)
  /\ WF_vars(DelayElapsed)
  /\ WF_vars(RunStart)
  /\ WF_vars(RunFinishAny)

\* The run queue alone is live: it takes its next task when its worker is
\* free and every export settles; run() of one identity is followed.
RunSpec ==
  /\ InitFor("run")
  /\ [][Next]_vars
  /\ WF_vars(RunStart)
  /\ WF_vars(RunFinishAny)

\* The program as LiveSpec has it, following what is asked for one identity
\* once another identity's entry has failed.
FailSpec ==
  /\ InitFor("fail")
  /\ [][Next]_vars
  /\ WF_vars(SchedulerStart)
  /\ WF_vars(DelayElapsed)
  /\ WF_vars(RunStart)
  /\ WF_vars(RunFinishAny)

\* changed() on every batch over every collection tree, called once init()
\* has run in mode immediate on a store whose definitions are all done.
ChangedInit ==
  /\ watch = "changed"
  /\ mode = "immediate"
  /\ lastSignal = "active"
  /\ inited = TRUE
  /\ db \in { d \in InitialStores : \A k \in DOMAIN d : d[k].status = "done" }
  /\ nextId = 2
  /\ sStopped = (mode # "immediate")
  /\ sStore = << >>
  /\ waits = << >>
  /\ rStore = << >>
  /\ runs = << >>
  /\ who = 1
  /\ pend = "no"
  /\ burst = 0
  /\ removed = {}
  /\ last = NoNote
  /\ parent \in ParentRelations
  /\ batch \in Batches
  /\ emitted = NotCalled

ChangedNext == Changed(batch)

ChangedSpec == ChangedInit /\ [][ChangedNext]_vars

\* ================================================================ claims
InFlight(k) == { i \in DOMAIN runs : runs[i].task.id = k }

InRunStage(k) == k \in Range(rStore) \/ InFlight(k) # {}

\* C1 (as stated): the pushes of one identity made within one quiet period
\* lead to one push into the run queue, not to one per push.
C1_OnePromotionPerBurst == burst <= 1

\* C2 (as stated): an entry cancelled before its wait elapses never pushes
\* its identity into the run queue.
C2_CancelledNeverPromotes ==
  ~(last.op = "wake" /\ last.info = "promoted-cancelled")

\* C3 (as stated): once remove() has deleted a definition, no debounce entry
\* of it promotes into the run queue.
C3_NothingAfterRemove == \A k \in removed : k \notin Range(rStore)

\* C4: at most one execution of the run handler is in flight per identity;
\* a request arriving during an execution waits in the queue.
C4_OneExecutionPerIdentity == \A k \in Ids : Cardinality(InFlight(k)) <= 1

C4_Witness ==
  \E k \in Ids : k \in Range(rStore) /\ InFlight(k) # {} /\ k \in DOMAIN db

\* C5: when an export ends, its definition is done; its last error is the
\* failure's description, or empty when the export succeeded (also after an
\* earlier failure).
C5_OutcomeRecorded ==
  (last.op = "finish" /\ last.id \in DOMAIN db) =>
    /\ db[last.id].status = "done"
    /\ db[last.id].error = last.info

C5_Witness ==
  /\ last.op = "finish"
  /\ last.id \in DOMAIN db
  /\ last.info = "Error: disk full"
  /\ db[last.id].error = "Error: disk full"

\* C7: mode off means the debounce scheduler is paused and mode immediate
\* means it is resumed, whatever the idle observer was told.
C7_ModeGovernsPause ==
  /\ mode = "off" => sStopped
  /\ mode = "immediate" => ~sStopped

C7_Witness ==
  mode = "off" /\ lastSignal = "idle" /\ sStopped /\ sStore # << >>

\* C8: in mode idle the debounce scheduler is resumed only while the most
\* recent idle-observer signal is idle.
C8_IdleModeFollowsSignal ==
  (mode = "idle" /\ ~sStopped) => lastSignal = "idle"

C8_Witness == mode = "idle" /\ ~sStopped /\ sStore # << >>

\* C10 (as stated): after init() every definition not done is in the run
\* stage, and the debounce scheduler is resumed when the mode is immediate.
C10_InitFeedsRunStage ==
  last.op = "init" =>
    /\ \A k \in DOMAIN db : db[k].status # "done" => InRunStage(k)
    /\ mode = "immediate" => ~sStopped

\* C10 (amended): init() pushes every definition not done into the debounce
\* queue and nothing into the run queue, and resumes the debounce scheduler
\* when the mode is immediate.
C10_InitFeedsDebounce ==
  [][ AutoExportInit =>
        /\ \A k \in DOMAIN db : db[k].status # "done" => k \in Range(sStore')
        /\ rStore' = rStore
        /\ runs' = runs
        /\ mode = "immediate" => ~sStopped' ]_vars

C10_Witness ==
  /\ last.op = "init"
  /\ sStopped
  /\ \E k \in Range(sStore) : k \in DOMAIN db /\ db[k].status = "running"
  /\ rStore = << >>
  /\ runs = << >>

\* C6: in mode immediate every push of an existing definition is followed
\* by a run of it that starts after the push, and every run that started
\* ends with the definition done.
C6_ScheduleLeadsToExport ==
  /\ (pend # "no" /\ mode = "immediate")
       ~> (pend = "no" \/ who \notin DOMAIN db \/ mode # "immediate")
  /\ (InFlight(who) # {})
       ~> (who \notin DOMAIN db \/ db[who].status = "done")

C6_Witness ==
  /\ who \in DOMAIN db
  /\ mode = "immediate"
  /\ pend = "owed"
  /\ InFlight(who) # {}
  /\ db[who].status = "running"

\* C9: a push made while the debounce scheduler is paused is kept: once the
\* scheduler is resumed, the identity reaches the run handler unless the
\* scheduler is paused again or the definition is deleted.
C9_PausedPushRetained ==
  (pend = "held" /\ ~sStopped)
    ~> (pend = "no" \/ sStopped \/ who \notin DOMAIN db)

C9_Witness ==
  /\ who \in DOMAIN db
  /\ pend = "held"
  /\ ~sStopped
  /\ who \in Range(sStore)
  /\ waits = << >>

\* C11: run() sets the definition scheduled and pushes its identity into the
\* run queue, leaving the debounce queue alone; unless the definition is
\* deleted, the export then starts and ends with the definition done,
\* whatever the mode and whether or not the debounce scheduler is paused.
C11_RunBypassesDebounce ==
  /\ [][ \A k \in Ids :
          Run(k) => /\ db'[k].status = "scheduled"
                    /\ k \in Range(rStore')
                    /\ sStore' = sStore
                    /\ waits' = waits ]_vars
  /\ (pend = "run") ~> (pend = "exec" \/ who \notin DOMAIN db)
  /\ (pend = "exec")
       ~> (who \notin DOMAIN db \/ (pend = "no" /\ db[who].status = "done"))

C11_Witness ==
  /\ pend = "exec"
  /\ mode = "off"
  /\ sStopped
  /\ sStore = << >>
  /\ waits = << >>
  /\ who \in DOMAIN db
  /\ db[who].status = "running"

\* C12: the store holds at most one definition per output path; add(def)
\* leaves exactly one record with def's path, which is def, and removes the
\* records stored at that path before.
C12_OneDefinitionPerPath ==
  /\ [](\A j, k \in DOMAIN db : db[j].path = db[k].path => j = k)
  /\ [][ \A d \in NewDefinitions :
          Add(d.type, d.id, d.path) =>
            /\ { k \in DOMAIN db' : db'[k].path = d.path } = {nextId}
            /\ db'[nextId].type = d.type
            /\ db'[nextId].id = d.id ]_vars

C12_Witness ==
  /\ removed = {}
  /\ 1 \notin DOMAIN db
  /\ \E k \in DOMAIN db : k # 1 /\ db[k].path = "a"

\* the collection c and all its ancestors
Ancestors(c) ==
  { a \in Collections : \E n \in 0 .. MaxColl : Climb(parent, c, n) = a }

BatchCollections ==
  UNION { Ancestors(c) :
            c \in UNION { Range(batch[i].collections) : i \in DOMAIN batch } }

BatchLibraries == { batch[i].libraryID : i \in DOMAIN batch }

EventsOf(kind) ==
  { i \in DOMAIN emitted.events : emitted.events[i].event = kind }

\* an event of this kind is emitted once, with exactly these ids, when there
\* are any, and not at all when there are none
EmittedOnce(kind, ids) ==
  IF ids = {} THEN EventsOf(kind) = {}
  ELSE /\ Cardinality(EventsOf(kind)) = 1
       /\ \A i \in EventsOf(kind) :
            /\ Range(emitted.events[i].ids) = ids
            /\ Len(emitted.events[i].ids) = Cardinality(ids)

\* C13: changed(items) emits collections-changed once with the items'
\* collections and all their ancestors, when there are any, and
\* libraries-changed once with the items' libraries, when there are any, and
\* nothing else.
C13_ChangedClosure ==
  emitted.called =>
    /\ EmittedOnce("collections-changed", BatchCollections)
    /\ EmittedOnce("libraries-changed", BatchLibraries)
    /\ Len(emitted.events) <= 2

\* an item in a collection nested two levels deep, a second item in its parent
C13_Witness ==
  /\ emitted.called
  /\ Len(batch) = 2
  /\ \E c \in Collections :
       /\ parent[c] # 0
       /\ parent[parent[c]] # 0
       /\ batch[1].collections = << c >>
       /\ batch[2].collections = << parent[c] >>
  /\ Cardinality(BatchCollections) = 3
  /\ \E i \in DOMAIN emitted.events : Len(emitted.events[i].ids) = 3

\* C14: after another identity's entry has failed (its export failed, or the
\* debounce or run handler found no definition for it), a schedule() of an
\* existing definition in mode immediate and a run() of it in any mode are
\* still followed by its export, which ends with the definition done, unless
\* the definition is deleted or the mode leaves immediate.
C14_FailureStopsNothing ==
  /\ (pend = "owed" /\ mode = "immediate")
       ~> (pend = "exec" \/ who \notin DOMAIN db \/ mode # "immediate")
  /\ (pend = "run") ~> (pend = "exec" \/ who \notin DOMAIN db)
  /\ (pend = "exec")
       ~> (who \notin DOMAIN db \/ (pend = "broke" /\ db[who].status = "done"))

C14_Witness ==
  /\ pend = "exec"
  /\ who \in DOMAIN db
  /\ db[who].status = "running"
  /\ \E k \in DOMAIN db : k # who /\ db[k].error = "Error: disk full"

\* C15 (as stated): while the debounce scheduler is paused no identity is
\* promoted into the run queue, also when its wait began before the pause.
C15_NoPromotionWhilePaused ==
  ~(last.op = "wake" /\ last.info # "dropped" /\ sStopped)

\* C15 (amended): while the debounce scheduler is paused no debounce handler
\* starts, so no wait begins and no queued entry leaves the queue for a
\* wait; the waits already begun are the only ones that still promote.
C15_NoWaitBeginsWhilePaused ==
  [][ sStopped =>
        /\ Len(waits') <= Len(waits)
        /\ \A k \in Range(sStore) : k \in Range(sStore') \/ k \notin DOMAIN db' ]_vars

C15_Witness ==
  /\ sStopped
  /\ mode = "off"
  /\ last.op = "wake"
  /\ last.info = "promoted"
  /\ \E k \in Range(sStore) : k \in DOMAIN db /\ k \in Range(rStore)

\* C16 (as stated): schedule() leaves every definition it pushes into the
\* debounce scheduler with status scheduled, at once and also when the
\* scheduler is paused.
C16_PushMarksScheduled ==
  [][ \A type \in Types : \A ids \in SUBSET ScopeIds :
        Schedule(type, ids) =>
          \A k \in Range(Find(type, ids)) : db'[k].status = "scheduled" ]_vars

\* C17 (as stated): an entry of one identity at the head of a queue is never
\* kept from starting by another identity: a queued wait can begin while
\* another identity's wait is pending, a queued export can begin while
\* another identity's export is executing.
C17_NeverBlockedByAnother ==
  /\ (/\ ~sStopped
      /\ sStore # << >>
      /\ \A i \in DOMAIN waits : waits[i].task.id # Head(sStore))
       => ENABLED SchedulerStart
  /\ (/\ rStore # << >>
      /\ \A i \in DOMAIN runs : runs[i].task.id # Head(rStore))
       => ENABLED RunStart

\* C17 (amended): each queue has one worker for all identities: at most one
\* wait that was not cancelled is pending and at most one export that was
\* not cancelled is executing; the next entry starts when the worker is free.
C17_OneWorkerPerQueue ==
  /\ Running(waits) <= 1
  /\ Running(runs) <= 1
  /\ (ENABLED SchedulerStart) => Running(waits) = 0
  /\ (ENABLED RunStart) => Running(runs) = 0

C17_Witness ==
  /\ ~sStopped
  /\ sStore # << >>
  /\ Head(sStore) \in DOMAIN db
  /\ \E i \in DOMAIN waits :
       /\ waits[i].active
       /\ waits[i].task.id # Head(sStore)
       /\ waits[i].task.id \in DOMAIN db
  /\ rStore # << >>
  /\ Head(rStore) \in DOMAIN db
  /\ \E i \in DOMAIN runs :
       /\ runs[i].active
       /\ runs[i].task.id # Head(rStore)
       /\ runs[i].task.id \in DOMAIN db

\* C18 (as stated): a preference-changed event for autoExport that carries
\* the mode already in force leaves the debounce scheduler paused if it was
\* paused and resumed if it was resumed, for every mode and signal history.
C18_ReapplyIdempotent ==
  last.op = "reapply" => (sStopped <=> last.info = "paused")

\* C18 (amended): re-applying the mode in force leaves the scheduler as it
\* was in modes off (a pause of a paused scheduler) and immediate (a resume
\* of a resumed one); in mode idle it leaves the scheduler paused, also when
\* an idle signal had resumed it.
C18_ReapplyIdempotentUnlessIdle ==
  last.op = "reapply" =>
    IF mode = "idle" THEN sStopped ELSE (sStopped <=> last.info = "paused")

C18_Witness ==
  /\ last.op = "reapply"
  /\ mode = "idle"
  /\ lastSignal = "idle"
  /\ last.info = "resumed"
  /\ sStopped
  /\ sStore # << >>

\* C19 (as stated): an existing definition with a debounce entry queued or
\* waiting, or a run entry queued or executing, does not have status done.
C19_PendingNotDone ==
  \A k \in DOMAIN db : (HasEntry(k) \/ InRunStage(k)) => db[k].status # "done"

\* C20 (as stated): the debounce handler and the run handler never start for
\* an identity that has no definition in the store.
C20_NoNotFoundFault == last.op # "fault"

====
